---- MODULE Spec2Model ----
(***************************************************************************)
(* pymasker: masks decoded from the bit-packed quality-assessment band of  *)
(* Landsat 8 and MODIS land products (src/pymasker.py).                    *)
(*                                                                         *)
(* A masker object holds file_path and band_data.  Every query method is   *)
(* an operator over the object ("self") that yields the object after the   *)
(* call, the exception raised ("None" when the call returns) and the       *)
(* value returned.  band_data is a 2-D grid: a sequence of rows, each a    *)
(* sequence of non-negative integer cells.                                 *)
(***************************************************************************)
EXTENDS Integers, Sequences, FiniteSets

VARIABLES kind, file_path, band_data, loaded, op, args, result, again

vars == <<kind, file_path, band_data, loaded, op, args, result, again>>

(***************************************************************************)
(* Bounds of the model.                                                    *)
(***************************************************************************)
\* Width in bits of a QA cell (the Landsat 8 QA band is 16 bits wide).
CellBits == 16
\* Cells of the single-query specification have at most this many bits set,
\* or at most this many bits cleared.
MaxSetBits == 4
\* Grids of the session specification hold at most this many cells.
MaxCells == 2
\* Largest bit_len handed to Masker.get_mask.
MaxBitLen == 2

(***************************************************************************)
(* Integer arithmetic of Python on the values the code computes.           *)
(***************************************************************************)
\* a << n on Python integers (a may be negative).
LeftShift(a, n) == a * (2 ^ n)

RECURSIVE BitAnd(_, _)
\* a & b on non-negative integers.
BitAnd(a, b) ==
    IF a = 0 \/ b = 0 THEN 0
    ELSE (a % 2) * (b % 2) + 2 * BitAnd(a \div 2, b \div 2)

\* Bit i of the non-negative integer a.
Bit(a, i) == (a \div (2 ^ i)) % 2

\* The unsigned value of the w bits of a that start at bit p.
Field(a, p, w) == (a \div (2 ^ p)) % (2 ^ w)

(***************************************************************************)
(* Values a call yields.                                                   *)
(***************************************************************************)
None == "None"

Return(self, v) == [self |-> self, exc |-> None, ret |-> v]

\* A call that raises returns nothing.
NoValue == <<>>

Raise(self, e) == [self |-> self, exc |-> e, ret |-> NoValue]

\* The observable outcome of a call: what it raised and what it returned.
Outcome(r) == [exc |-> r.exc, ret |-> r.ret]

NoCall == [exc |-> "NoCall", ret |-> NoValue]

\* array & k, elementwise on a 2-D array.
array_and(a, k) == [i \in DOMAIN a |-> [j \in DOMAIN a[i] |-> BitAnd(a[i][j], k)]]

\* array == k, elementwise.
array_eq(a, k) == [i \in DOMAIN a |-> [j \in DOMAIN a[i] |-> a[i][j] = k]]

\* array >= k, elementwise.
array_ge(a, k) == [i \in DOMAIN a |-> [j \in DOMAIN a[i] |-> a[i][j] >= k]]

\* array < k, elementwise.
array_lt(a, k) == [i \in DOMAIN a |-> [j \in DOMAIN a[i] |-> a[i][j] < k]]

\* np.logical_or(a, b) on two masks of one shape.
logical_or(a, b) == [i \in DOMAIN a |-> [j \in DOMAIN a[i] |-> a[i][j] \/ b[i][j]]]

\* np.logical_and(a, b) on two masks of one shape.
logical_and(a, b) == [i \in DOMAIN a |-> [j \in DOMAIN a[i] |-> a[i][j] /\ b[i][j]]]

BoolToInt(b) == IF b THEN 1 ELSE 0

\* mask.astype(int) on a mask of booleans.
astype_int(mask) ==
    [i \in DOMAIN mask |-> [j \in DOMAIN mask[i] |-> BoolToInt(mask[i][j])]]

(***************************************************************************)
(* int(s, 2) on a string of '0' and '1' characters, a sequence here.       *)
(***************************************************************************)
RECURSIVE Base2(_)
Base2(s) ==
    IF s = <<>> THEN 0
    ELSE 2 * Base2(SubSeq(s, 1, Len(s) - 1)) + (IF s[Len(s)] = "1" THEN 1 ELSE 0)

\* int(s, 2): the empty string is no literal and raises ValueError.
int2(s) ==
    IF s = <<>> THEN [exc |-> "ValueError", ret |-> NoValue]
    ELSE [exc |-> None, ret |-> Base2(s)]

\* '1' * n
Ones(n) == [i \in 1..n |-> "1"]

(***************************************************************************)
(* class Masker                                                            *)
(***************************************************************************)
\* os.path.splitext(file_path) on the paths of FilePaths: <<root, extension>>.
splitext(path) ==
    CASE path = "scene_BQA.TIF" -> <<"scene_BQA", ".TIF">>
      [] path = "MOD09A1.hdf" -> <<"MOD09A1", ".hdf">>

\* str.lower() on the extensions of those paths.
lower(ext) ==
    CASE ext = ".TIF" -> ".tif"
      [] OTHER -> ext

\* Masker.load_file.  What gdal reads is the environment's: the file holds
\* subdatasets subdatasets when it is an .hdf file, and array is the band the
\* call selects (subdataset band_num of an .hdf file, raster band 1 of any
\* other file).  file_path is assigned before the file is opened, so it is
\* kept when GetSubDatasets()[band_num] raises IndexError.
load_file(self, path, band_num, subdatasets, array) ==
    LET named == [file_path |-> path, band_data |-> self.band_data]
        extension == lower(splitext(path)[2])
    IN  IF extension = ".hdf" /\ band_num >= subdatasets
        THEN Raise(named, "IndexError")
        ELSE Return([file_path |-> path, band_data |-> array], NoValue)

\* Masker.load_data
load_data(self, array) ==
    Return([file_path |-> None, band_data |-> array], NoValue)

\* A value argument: a Python int or a Python str of binary digits.
IntArg(v) == [type |-> "int", v |-> v]
StrArg(s) == [type |-> "str", v |-> s]

\* get_mask with the range mask of __get_mask, bit_len << bit_pos.
get_mask_len_shift(self, bit_pos, bit_len, value) ==
    LET val == IF value.type = "str" THEN int2(value.v)
               ELSE [exc |-> None, ret |-> value.v]
    IN  IF bit_len = 0 THEN Raise(self, "ValueError")
        ELSE IF val.exc # None THEN Raise(self, val.exc)
        ELSE LET pos_value == LeftShift(bit_len, bit_pos)
                 con_value == LeftShift(val.ret, bit_pos)
                 mask == array_eq(array_and(self.band_data, pos_value), con_value)
             IN  Return(self, astype_int(mask))

\* get_mask with the range mask computed as (1 << bit_len) - 1, which parses
\* no string and so accepts bit_len = 0.
get_mask_no_parse(self, bit_pos, bit_len, value) ==
    LET val == IF value.type = "str" THEN int2(value.v)
               ELSE [exc |-> None, ret |-> value.v]
    IN  IF val.exc # None THEN Raise(self, val.exc)
        ELSE LET pos_value == LeftShift(2 ^ bit_len - 1, bit_pos)
                 con_value == LeftShift(val.ret, bit_pos)
                 mask == array_eq(array_and(self.band_data, pos_value), con_value)
             IN  Return(self, astype_int(mask))

\* Masker.get_mask: the range mask is int('1' * bit_len, 2) << bit_pos.
get_mask(self, bit_pos, bit_len, value) ==
    LET bitlen == int2(Ones(bit_len))
        val == IF value.type = "str" THEN int2(value.v)
               ELSE [exc |-> None, ret |-> value.v]
    IN  IF bitlen.exc # None THEN Raise(self, bitlen.exc)
        ELSE IF val.exc # None THEN Raise(self, val.exc)
        ELSE LET pos_value == LeftShift(bitlen.ret, bit_pos)
                 con_value == LeftShift(val.ret, bit_pos)
                 mask == array_eq(array_and(self.band_data, pos_value), con_value)
             IN  Return(self, astype_int(mask))

(***************************************************************************)
(* class LandsatConfidence, class ModisQuality                             *)
(***************************************************************************)
LandsatConfidence ==
    [high |-> 3, medium |-> 2, low |-> 1, undefined |-> 0, none |-> -1]

ModisQuality == [high |-> 0, medium |-> 1, low |-> 2, low_cloud |-> 3]

(***************************************************************************)
(* class LandsatMasker                                                     *)
(***************************************************************************)
\* __get_mask with the range mask of get_mask, ((1 << bit_len) - 1) << bit_loc.
__get_mask_full_range(self, bit_loc, bit_len, value, cumulative) ==
    LET pos_value == LeftShift(2 ^ bit_len - 1, bit_loc)
        con_value == LeftShift(value, bit_loc)
        mask == IF cumulative
                THEN array_ge(array_and(self.band_data, pos_value), con_value)
                ELSE array_eq(array_and(self.band_data, pos_value), con_value)
    IN  Return(self, mask)

\* __get_mask masking the band in place (self.band_data &= pos_value).
__get_mask_inplace(self, bit_loc, bit_len, value, cumulative) ==
    LET pos_value == LeftShift(bit_len, bit_loc)
        con_value == LeftShift(value, bit_loc)
        masked == array_and(self.band_data, pos_value)
        mask == IF cumulative THEN array_ge(masked, con_value)
                ELSE array_eq(masked, con_value)
    IN  Return([file_path |-> self.file_path, band_data |-> masked], mask)

\* LandsatMasker.__get_mask: the range mask is bit_len << bit_loc.
__get_mask(self, bit_loc, bit_len, value, cumulative) ==
    LET pos_value == LeftShift(bit_len, bit_loc)
        con_value == LeftShift(value, bit_loc)
        mask == IF cumulative
                THEN array_ge(array_and(self.band_data, pos_value), con_value)
                ELSE array_eq(array_and(self.band_data, pos_value), con_value)
    IN  Return(self, mask)

\* r.astype(int) on the mask a call returned.
AsInt(r) == Return(r.self, astype_int(r.ret))

get_cloud_mask(self, conf, cumulative) ==
    AsInt(__get_mask(self, 14, 3, conf, cumulative))

get_cirrus_mask(self, conf, cumulative) ==
    AsInt(__get_mask(self, 12, 3, conf, cumulative))

get_veg_mask(self, conf, cumulative) ==
    AsInt(__get_mask(self, 8, 3, conf, cumulative))

get_water_mask(self, conf, cumulative) ==
    AsInt(__get_mask(self, 4, 3, conf, cumulative))

\* get_snow_mask reading its field one bit too low.
get_snow_mask_off9(self, conf, cumulative) ==
    AsInt(__get_mask(self, 9, 3, conf, cumulative))

get_snow_mask(self, conf, cumulative) ==
    AsInt(__get_mask(self, 10, 3, conf, cumulative))

\* get_fill_mask reading bit 1.
get_fill_mask_bit1(self) == __get_mask(self, 1, 1, 1, FALSE)

get_fill_mask(self) == __get_mask(self, 0, 1, 1, FALSE)

\* The tasks list of get_multi_mask: [bit_loc, level, cumulative] in the
\* order veg, snow, cirrus, cloud, water.
tasks(cloud, cloud_cum, cirrus, cirrus_cum, snow, snow_cum, veg, veg_cum, water, water_cum) ==
    << <<8, veg, veg_cum>>,
       <<10, snow, snow_cum>>,
       <<12, cirrus, cirrus_cum>>,
       <<14, cloud, cloud_cum>>,
       <<4, water, water_cum>> >>

RECURSIVE for_task(_, _, _, _)
\* The loop of get_multi_mask: every task's mask is folded into final_mask.
for_task(self, final_mask, todo, inclusive) ==
    IF todo = <<>> THEN Return(self, final_mask)
    ELSE LET task == Head(todo)
             r == __get_mask(self, task[1], 3, task[2], task[3])
             folded == IF inclusive THEN logical_or(final_mask, r.ret)
                       ELSE logical_and(final_mask, r.ret)
         IN  for_task(r.self, folded, Tail(todo), inclusive)

\* LandsatMasker.get_multi_mask
get_multi_mask(self, cloud, cloud_cum, cirrus, cirrus_cum, snow, snow_cum, veg, veg_cum, water, water_cum, inclusive) ==
    LET final_mask == IF inclusive THEN array_lt(self.band_data, 0)
                      ELSE array_ge(self.band_data, 0)
    IN  AsInt(for_task(self, final_mask,
                       tasks(cloud, cloud_cum, cirrus, cirrus_cum, snow, snow_cum,
                             veg, veg_cum, water, water_cum),
                       inclusive))

(***************************************************************************)
(* class ModisMasker                                                       *)
(***************************************************************************)
\* ModisMasker.get_qa_mask: .astype(int) of a mask of integers is the mask.
get_qa_mask(self, quality) == get_mask(self, 0, 2, IntArg(quality))

(***************************************************************************)
(* Inputs.                                                                 *)
(***************************************************************************)
RECURSIVE SetsUpTo(_)
\* The sets of at most k bit positions of a cell.
SetsUpTo(k) ==
    IF k = 0 THEN {{}}
    ELSE LET smaller == SetsUpTo(k - 1)
         IN  smaller \cup {S \cup {b} : S \in smaller, b \in 0..(CellBits - 1)}

RECURSIVE BitsValue(_)
\* The cell whose set bits are those of S.
BitsValue(S) ==
    IF S = {} THEN 0
    ELSE LET b == CHOOSE x \in S : TRUE IN 2 ^ b + BitsValue(S \ {b})

\* Cells with few bits set, and their complements (few bits cleared).
Cells ==
    LET sparse == {BitsValue(S) : S \in SetsUpTo(MaxSetBits)}
    IN  sparse \cup {2 ^ CellBits - 1 - c : c \in sparse}

\* Cells of the grids of a session: 0xC000 (cloud high), 0x7001 (fill, cirrus
\* high and the low cloud bit).
SessionCells == {49152, 28673}

\* The 2-D arrays of rows x cols cells.
Grids(rows, cols, cells) == [1..rows -> [1..cols -> cells]]

\* The arrays a session loads: every shape of at most MaxCells cells.
Arrays ==
    UNION {Grids(shape[1], shape[2], SessionCells) :
             shape \in {sh \in (1..MaxCells) \X (1..MaxCells) :
                           sh[1] * sh[2] <= MaxCells}}

Confidence ==
    {LandsatConfidence.high, LandsatConfidence.medium, LandsatConfidence.low,
     LandsatConfidence.undefined, LandsatConfidence.none}

Quality ==
    {ModisQuality.high, ModisQuality.medium, ModisQuality.low,
     ModisQuality.low_cloud}

Conditions == {"cloud", "cirrus", "snow", "veg", "water"}

\* The int and str value arguments get_mask is called with: 0, 3, '' and '11'.
MaskInts == {0, 3}

MaskStrs == {<<>>, <<"1", "1">>}

\* The bit positions get_mask is called with.
MaskPositions == {0, 14}

\* The positional form <<cloud, cloud_cum, cirrus, cirrus_cum, snow, snow_cum,
\* veg, veg_cum, water, water_cum, inclusive>> of a get_multi_mask call whose
\* keyword arguments give (level, cum) to the conditions of given and leave
\* the others at their defaults (LandsatConfidence.none, False).
MultiArgs(given, level, cum, inclusive) ==
    LET lv(c) == IF c \in given THEN level ELSE LandsatConfidence.none
        cm(c) == IF c \in given THEN cum ELSE FALSE
    IN  <<lv("cloud"), cm("cloud"), lv("cirrus"), cm("cirrus"),
          lv("snow"), cm("snow"), lv("veg"), cm("veg"),
          lv("water"), cm("water"), inclusive>>

\* The conditions a get_multi_mask call names: none, cloud alone, cirrus
\* alone, or all five.
MultiGiven == {{}, {"cloud"}, {"cirrus"}, Conditions}

\* The levels a get_multi_mask call gives to the conditions it names.
MultiLevels == {LandsatConfidence.none, LandsatConfidence.high}

\* The paths of the files a masker is loaded from.
FilePaths == {"scene_BQA.TIF", "MOD09A1.hdf"}

\* The band numbers load_file is called with: the default, and the one
\* ModisMasker.__init__ passes.
BandNums == {0, 3}

\* The numbers of subdatasets an .hdf file may hold.
SubdatasetCounts == {1, 4}

(***************************************************************************)
(* The masker as a state machine.  op, args and result record the last     *)
(* call; again is the outcome of the call before it when that call had the *)
(* same method and arguments; loaded is the array last loaded.             *)
(***************************************************************************)
Self == [file_path |-> file_path, band_data |-> band_data]

\* The object before __init__ has assigned its fields.
Blank == [file_path |-> None, band_data |-> <<>>]

\* The state after a constructor of class k whose load r returned; a
\* constructor whose load raised leaves no object.
Constructed(k, r, array) ==
    /\ r.exc = None
    /\ kind = k
    /\ file_path = r.self.file_path
    /\ band_data = r.self.band_data
    /\ loaded = array
    /\ op = "__init__"
    /\ args = <<>>
    /\ result = Outcome(r)
    /\ again = NoCall

\* Masker.__init__(band) with band an array: load_data(band).
Construct(k, array) == Constructed(k, load_data(Blank, array), array)

\* Masker.__init__(band, *var) with band a str: load_file(band, var[0]) when
\* var is given, else load_file(band) with the default band_num = 0.
Masker_init_file(path, var, subdatasets, array) ==
    IF Len(var) > 0 THEN load_file(Blank, path, var[1], subdatasets, array)
    ELSE load_file(Blank, path, 0, subdatasets, array)

\* ModisMasker.__init__(file_path) called with a str: it takes no further
\* argument (extra ones are a TypeError, before anything is loaded) and calls
\* Masker.__init__(file_path, 3).
ModisMasker_init_file(path, extra, subdatasets, array) ==
    IF Len(extra) > 0 THEN Raise(Blank, "TypeError")
    ELSE Masker_init_file(path, <<3>>, subdatasets, array)

\* k(path, *var): LandsatMasker inherits Masker.__init__.
ConstructFromFile(k, path, var, subdatasets, array) ==
    Constructed(k,
                IF k = "ModisMasker"
                THEN ModisMasker_init_file(path, var, subdatasets, array)
                ELSE Masker_init_file(path, var, subdatasets, array),
                array)

Classes == {"Masker", "LandsatMasker", "ModisMasker"}

\* Masker(band), LandsatMasker(band) or ModisMasker(band), band an array or
\* the path of a file.
Init ==
    \E k \in Classes, array \in Arrays :
        \/ Construct(k, array)
        \/ \E path \in FilePaths, var \in {<<>>, <<3>>}, subdatasets \in SubdatasetCounts :
              ConstructFromFile(k, path, var, subdatasets, array)

\* A query o(a) that yields r.
Call(o, a, r) ==
    /\ kind' = kind
    /\ file_path' = r.self.file_path
    /\ band_data' = r.self.band_data
    /\ loaded' = loaded
    /\ op' = o
    /\ args' = a
    /\ result' = Outcome(r)
    /\ again' = IF o = op /\ a = args THEN result ELSE NoCall

LoadData ==
    \E array \in Arrays :
        LET r == load_data(Self, array)
        IN  /\ kind' = kind
            /\ file_path' = r.self.file_path
            /\ band_data' = r.self.band_data
            /\ loaded' = array
            /\ op' = "load_data"
            /\ args' = <<array>>
            /\ result' = Outcome(r)
            /\ again' = NoCall

\* load_file(path[, band_num]) on a masker: when it raises, band_data is the
\* array loaded before.
LoadFile ==
    \E path \in FilePaths, band_num \in BandNums, subdatasets \in SubdatasetCounts, array \in Arrays :
        LET r == load_file(Self, path, band_num, subdatasets, array)
        IN  /\ kind' = kind
            /\ file_path' = r.self.file_path
            /\ band_data' = r.self.band_data
            /\ loaded' = IF r.exc = None THEN array ELSE loaded
            /\ op' = "load_file"
            /\ args' = <<path, band_num>>
            /\ result' = Outcome(r)
            /\ again' = NoCall

GetMask ==
    \E bit_pos \in MaskPositions, bit_len \in 0..MaxBitLen :
        \/ \E v \in MaskInts :
              Call("get_mask", <<bit_pos, bit_len, "int", v>>,
                   get_mask(Self, bit_pos, bit_len, IntArg(v)))
        \/ \E s \in MaskStrs :
              Call("get_mask", <<bit_pos, bit_len, "str", s>>,
                   get_mask(Self, bit_pos, bit_len, StrArg(s)))

GetQaMask ==
    /\ kind = "ModisMasker"
    /\ \E quality \in Quality :
           Call("get_qa_mask", <<quality>>, get_qa_mask(Self, quality))

GetCloudMask ==
    /\ kind = "LandsatMasker"
    /\ \E conf \in Confidence, cumulative \in BOOLEAN :
           Call("get_cloud_mask", <<conf, cumulative>>,
                get_cloud_mask(Self, conf, cumulative))

GetCirrusMask ==
    /\ kind = "LandsatMasker"
    /\ \E conf \in Confidence, cumulative \in BOOLEAN :
           Call("get_cirrus_mask", <<conf, cumulative>>,
                get_cirrus_mask(Self, conf, cumulative))

GetVegMask ==
    /\ kind = "LandsatMasker"
    /\ \E conf \in Confidence, cumulative \in BOOLEAN :
           Call("get_veg_mask", <<conf, cumulative>>,
                get_veg_mask(Self, conf, cumulative))

GetWaterMask ==
    /\ kind = "LandsatMasker"
    /\ \E conf \in Confidence, cumulative \in BOOLEAN :
           Call("get_water_mask", <<conf, cumulative>>,
                get_water_mask(Self, conf, cumulative))

GetSnowMask ==
    /\ kind = "LandsatMasker"
    /\ \E conf \in Confidence, cumulative \in BOOLEAN :
           Call("get_snow_mask", <<conf, cumulative>>,
                get_snow_mask(Self, conf, cumulative))

GetFillMask ==
    /\ kind = "LandsatMasker"
    /\ Call("get_fill_mask", <<>>, get_fill_mask(Self))

GetMultiMask ==
    /\ kind = "LandsatMasker"
    /\ \E given \in MultiGiven, level \in MultiLevels, cum \in BOOLEAN, inclusive \in BOOLEAN :
           LET a == MultiArgs(given, level, cum, inclusive)
           IN  Call("get_multi_mask", a,
                    get_multi_mask(Self, a[1], a[2], a[3], a[4], a[5], a[6],
                                   a[7], a[8], a[9], a[10], a[11]))

\* A session: any sequence of loads and queries on one masker.
Next ==
    \/ LoadData
    \/ LoadFile
    \/ GetMask
    \/ GetQaMask
    \/ GetCloudMask
    \/ GetCirrusMask
    \/ GetVegMask
    \/ GetWaterMask
    \/ GetSnowMask
    \/ GetFillMask
    \/ GetMultiMask

Spec == Init /\ [][Next]_vars

(***************************************************************************)
(* One query on a freshly constructed masker over a single cell, the cell  *)
(* drawn from Cells: the per-cell behaviour of the Landsat and MODIS       *)
(* queries.                                                                *)
(***************************************************************************)
InitCell ==
    \E k \in {"LandsatMasker", "ModisMasker"}, c \in Cells :
        Construct(k, <<<<c>>>>)

Fresh == op = "__init__"

NextCell ==
    \/ Fresh /\ GetQaMask
    \/ Fresh /\ GetCloudMask
    \/ Fresh /\ GetCirrusMask
    \/ Fresh /\ GetVegMask
    \/ Fresh /\ GetWaterMask
    \/ Fresh /\ GetSnowMask
    \/ Fresh /\ GetFillMask

SpecCell == InitCell /\ [][NextCell]_vars

(***************************************************************************)
(* Vocabulary of the properties.                                           *)
(***************************************************************************)
\* The per-condition queries of LandsatMasker.
ConditionQueries ==
    {"get_cloud_mask", "get_cirrus_mask", "get_veg_mask", "get_water_mask",
     "get_snow_mask"}

\* The bit offset the documentation of the catalog gives each query.
CatalogOffset(o) ==
    CASE o = "get_veg_mask" -> 8
      [] o = "get_snow_mask" -> 10
      [] o = "get_cirrus_mask" -> 12
      [] o = "get_cloud_mask" -> 14
      [] o = "get_water_mask" -> 4
      [] o = "get_fill_mask" -> 0

\* The levels that are bit patterns (every level but none).
Levels == 0..3

\* The cells of the loaded array, as <<row, column>> index pairs.
CellIndex == {<<i, j>> : i \in DOMAIN band_data, j \in 1..Len(band_data[1])}

\* The last call was the per-condition query o(level, cumulative) for a level
\* that is a bit pattern.
ConditionCall(cumulative) ==
    /\ op \in ConditionQueries
    /\ args[1] \in Levels
    /\ args[2] = cumulative

\* The mask query o(conf, cumulative) answers on an array holding one cell.
OnCell(o, conf, cumulative, c) ==
    LET self == [file_path |-> None, band_data |-> <<<<c>>>>]
        r == CASE o = "get_cloud_mask" -> get_cloud_mask(self, conf, cumulative)
               [] o = "get_cirrus_mask" -> get_cirrus_mask(self, conf, cumulative)
               [] o = "get_veg_mask" -> get_veg_mask(self, conf, cumulative)
               [] o = "get_water_mask" -> get_water_mask(self, conf, cumulative)
               [] o = "get_snow_mask" -> get_snow_mask(self, conf, cumulative)
               [] o = "get_fill_mask" -> AsInt(get_fill_mask(self))
    IN  r.ret[1][1]

\* The cell c with bit b flipped.
Flip(c, b) == IF Bit(c, b) = 1 THEN c - 2 ^ b ELSE c + 2 ^ b

(***************************************************************************)
(* Properties of a single query (SpecCell).                                *)
(***************************************************************************)
\* C3: after a per-condition query with cumulative = False and a
\* level v in 0..3, a cell's mask value is 1 exactly when the 3-bit field of
\* the cell at bits [offset, offset + 3) equals v.
C3_ExactThreeBitField ==
    ConditionCall(FALSE) =>
        \A ix \in CellIndex :
            (result.ret[ix[1]][ix[2]] = 1)
                <=> (Field(band_data[ix[1]][ix[2]], CatalogOffset(op), 3) = args[1])

\* C4: after a per-condition query with cumulative = True and a
\* level v in 0..3, a cell's mask value is 1 exactly when the value of the
\* 3-bit field of the cell at bits [offset, offset + 3) is at least v.
C4_AtLeastThreeBitField ==
    ConditionCall(TRUE) =>
        \A ix \in CellIndex :
            (result.ret[ix[1]][ix[2]] = 1)
                <=> (Field(band_data[ix[1]][ix[2]], CatalogOffset(op), 3) >= args[1])

\* C5: after get_qa_mask(quality), a cell's mask value is 1 exactly when the
\* cell's two lowest bits, read as a number, equal quality, and 0 otherwise.
C5_QaMaskTwoLowestBits ==
    op = "get_qa_mask" =>
        /\ result.exc = None
        /\ \A ix \in CellIndex :
              LET c == band_data[ix[1]][ix[2]]
              IN  /\ result.ret[ix[1]][ix[2]] \in {0, 1}
                  /\ (result.ret[ix[1]][ix[2]] = 1)
                        <=> (2 * Bit(c, 1) + Bit(c, 0) = args[1])

\* get_qa_mask(low) accepts a cell whose low bits are 10 and whose higher
\* bits are not all zero.
C5_Witness ==
    /\ op = "get_qa_mask"
    /\ args = <<ModisQuality.low>>
    /\ band_data[1][1] % 4 = 2
    /\ band_data[1][1] > 4
    /\ result = [exc |-> None, ret |-> <<<<1>>>>]

\* C6: after get_fill_mask(), a cell's mask value is true exactly when bit 0
\* of the cell is 1.
C6_FillMaskBitZero ==
    op = "get_fill_mask" =>
        /\ result.exc = None
        /\ \A ix \in CellIndex :
              result.ret[ix[1]][ix[2]] = (Bit(band_data[ix[1]][ix[2]], 0) = 1)

\* get_fill_mask() is false on an even cell that has every other bit set.
C6_Witness ==
    /\ op = "get_fill_mask"
    /\ band_data = <<<<2 ^ CellBits - 2>>>>
    /\ result = [exc |-> None, ret |-> <<<<FALSE>>>>]

\* The queries that read one field of the Landsat catalog.
FieldQueries == ConditionQueries \cup {"get_fill_mask"}

\* The bit range [offset, offset + width) the catalog declares for a query:
\* width 3 for the five conditions, width 1 for fill.
DeclaredRange(o) ==
    CatalogOffset(o) .. (CatalogOffset(o) + (IF o = "get_fill_mask" THEN 1 ELSE 3) - 1)

\* The bit positions of a cell a query reads: those whose value alone changes
\* the mask the query answers for some level.
TestedBits ==
    [o \in FieldQueries |->
        {b \in 0..(CellBits - 1) :
            \E conf \in Levels, cumulative \in BOOLEAN :
                OnCell(o, conf, cumulative, 2 ^ b) # OnCell(o, conf, cumulative, 0)}]

\* C9 as stated: the declared bit range of the field the last query read
\* (width 3 at offsets 4, 8, 10, 12 and 14, width 1 at offset 0 for fill)
\* shares no bit position with the declared range of any other field.
C9_DeclaredRangesDisjoint ==
    op \in FieldQueries =>
        \A other \in FieldQueries \ {op} :
            DeclaredRange(op) \cap DeclaredRange(other) = {}

\* C9 amended: the bit positions the last query reads (bits offset and
\* offset + 1 for the five conditions, bit 0 for fill) are read by no other
\* query of the catalog.
C9_TestedBitsDisjoint ==
    op \in FieldQueries =>
        /\ TestedBits[op] =
              (IF op = "get_fill_mask" THEN {0}
               ELSE {CatalogOffset(op), CatalogOffset(op) + 1})
        /\ \A other \in FieldQueries \ {op} :
              TestedBits[op] \cap TestedBits[other] = {}

\* A snow query, whose bits 10 and 11 lie between those of vegetation (8, 9)
\* and cirrus (12, 13).
C9_Witness ==
    /\ op = "get_snow_mask"
    /\ TestedBits["get_snow_mask"] = {10, 11}
    /\ TestedBits["get_veg_mask"] = {8, 9}
    /\ TestedBits["get_cirrus_mask"] = {12, 13}
    /\ result.exc = None

\* C10: after a per-condition query at offset p with a level in 0..3, the
\* mask value of the cell is the one the query gives to every cell that
\* differs from it in one bit other than p and p + 1; and exactly one of the
\* levels 0..3 matches the cell with cumulative = False.
C10_TwoBitsDecide ==
    (op \in ConditionQueries /\ args[1] \in Levels) =>
        LET c == band_data[1][1]
            p == CatalogOffset(op)
        IN  /\ \A b \in (0..CellBits) \ {p, p + 1} :
                  OnCell(op, args[1], args[2], Flip(c, b)) = result.ret[1][1]
            /\ Cardinality({v \in Levels : OnCell(op, v, FALSE, c) = 1}) = 1

\* A cirrus query that matches a cell whose bit 14, right above the cirrus
\* bits, is set, with other bits set below them.
C10_Witness ==
    /\ op = "get_cirrus_mask"
    /\ args = <<LandsatConfidence.low, FALSE>>
    /\ Field(band_data[1][1], 12, 3) = 5
    /\ band_data[1][1] % 4096 # 0
    /\ result = [exc |-> None, ret |-> <<<<1>>>>]

(***************************************************************************)
(* Properties of a session (Spec).                                         *)
(***************************************************************************)
\* C7: in every state of a session band_data is the array that was last
\* loaded (by the constructor, load_data or a load_file that returned), and a query repeated with the arguments of the query right before
\* it has the outcome that query had.
C7_QueriesArePure ==
    /\ band_data = loaded
    /\ again.exc # "NoCall" => again = result

\* A get_multi_mask call repeated on a two-cell array, answering twice the
\* same mask with a 1 and a 0 in it.
C7_Witness ==
    /\ op = "get_multi_mask"
    /\ again.exc = None
    /\ again = result
    /\ \E ix \in CellIndex : result.ret[ix[1]][ix[2]] = 1
    /\ \E ix \in CellIndex : result.ret[ix[1]][ix[2]] = 0
    /\ band_data = loaded

\* C8 as stated: get_mask with bit_len = 0 fails with a ConfigurationError
\* and returns no mask.
C8_ZeroWidthConfigurationError ==
    (op = "get_mask" /\ args[2] = 0) =>
        /\ result.exc = "ConfigurationError"
        /\ result.ret = NoValue

\* C8 amended: get_mask with bit_len = 0 fails with a ValueError (int('', 2)
\* has no digits to parse) and returns no mask, whatever bit_pos and value are.
C8_ZeroWidthValueError ==
    (op = "get_mask" /\ args[2] = 0) =>
        /\ result.exc = "ValueError"
        /\ result.ret = NoValue

\* get_mask(14, 0, 0), which with an empty range mask would accept every
\* cell, raised ValueError.
C8_Witness ==
    /\ op = "get_mask"
    /\ args = <<14, 0, "int", 0>>
    /\ result = [exc |-> "ValueError", ret |-> NoValue]

\* The levels and the cumulative flags of a get_multi_mask call, by condition.
MultiLevel(a) ==
    [cloud |-> a[1], cirrus |-> a[3], snow |-> a[5], veg |-> a[7], water |-> a[9]]

MultiCum(a) ==
    [cloud |-> a[2], cirrus |-> a[4], snow |-> a[6], veg |-> a[8], water |-> a[10]]

\* C1: after get_multi_mask with every level left at LandsatConfidence.none,
\* every cell of the mask is 1 if inclusive = False and 0 if inclusive = True.
C1_NoRequestsNeutralMask ==
    (op = "get_multi_mask" /\ \A c \in Conditions : MultiLevel(args)[c] = LandsatConfidence.none) =>
        \A ix \in CellIndex :
            result.ret[ix[1]][ix[2]] = (IF args[11] THEN 0 ELSE 1)

\* The mask the per-condition query of cond answers for (level, cumulative).
IndividualMask(cond, level, cumulative) ==
    CASE cond = "cloud" -> get_cloud_mask(Self, level, cumulative).ret
      [] cond = "cirrus" -> get_cirrus_mask(Self, level, cumulative).ret
      [] cond = "snow" -> get_snow_mask(Self, level, cumulative).ret
      [] cond = "veg" -> get_veg_mask(Self, level, cumulative).ret
      [] cond = "water" -> get_water_mask(Self, level, cumulative).ret

\* C2: the mask of get_multi_mask is the cell-wise AND (inclusive = False)
\* or OR (inclusive = True) of the per-condition masks of exactly the
\* conditions whose level is not none, folded in any order.
C2_MultiMaskIsFoldOfRequested ==
    op = "get_multi_mask" =>
        LET requested == {c \in Conditions : MultiLevel(args)[c] # LandsatConfidence.none}
            one(c, ix) == IndividualMask(c, MultiLevel(args)[c], MultiCum(args)[c])[ix[1]][ix[2]] = 1
        IN  \A ix \in CellIndex :
                result.ret[ix[1]][ix[2]] =
                    BoolToInt(IF args[11] THEN \E c \in requested : one(c, ix)
                              ELSE \A c \in requested : one(c, ix))

====
